---- MODULE Spec2Model ----
(***************************************************************************)
(* pw-volume (src/src/main.rs): one run parses the command line, reads the *)
(* PipeWire dump, resolves the default audio sink and either prints the    *)
(* status or sends one `pw-cli set-param <id> Props <json>` command.       *)
(*                                                                         *)
(* Numbers.  The f64 values of the dump are modelled as exact fixed-point  *)
(* integers: 100 model units are the value 1.0.  Every VolumeRange the     *)
(* model enumerates has min and max multiples of 100, so the quotient      *)
(* percent * range / 100 of line 232 is exact and \div computes it.  The   *)
(* status percentage vol * 100 / range (line 246) is in general not an     *)
(* integer; it is kept as the fraction num/den and formatted from that.    *)
(* Floating-point rounding error, infinities and NaN are outside the       *)
(* model.                                                                  *)
(*                                                                         *)
(* Option<T> is modelled as a sequence: <<>> is None, <<x>> is Some(x).    *)
(***************************************************************************)
EXTENDS Integers, Sequences, FiniteSets, TLC

VARIABLES
    pc,                 \* position of the run inside main / pw_dump
    matches,            \* the parsed command line (clap ArgMatches)
    layout,             \* what the audio server holds besides the live props
    device,             \* node id -> live Props of that node in the server
    obj,                \* the parsed dump handed to pw_dump
    default_audio_sink, \* Option<&str>, line 144
    node,               \* Option<&PipeWireInterfaceNode>, line 161
    volume_prop,        \* Option<&NodePropInfoTypeVolume>, line 178
    status,             \* Option<&NodePropVolume>, line 203
    cmd,                \* Option<PipeWireCommand>, line 220
    invocations,        \* pw-cli invocations of this run: <<[id, props]>>
    stdout,             \* lines printed by this run
    result,             \* "running", "Ok" or the error that ended the run
    prev_toggle         \* history: Some(mute read) if the previous run was a
                        \* successful `mute toggle`, else None

vars == <<pc, matches, layout, device, obj, default_audio_sink, node,
          volume_prop, status, cmd, invocations, stdout, result, prev_toggle>>

-----------------------------------------------------------------------------
(* Bounds *)

MaxObjs == 5        \* longest dump enumerated for the resolver
MaxChannels == 2    \* longest channelVolumes list a device starts with

-----------------------------------------------------------------------------
(* Strings the code compares against *)

MetadataInterface == "PipeWire:Interface:Metadata"
NodeInterface == "PipeWire:Interface:Node"
DefaultSinkKey == "default.audio.sink"
ChannelVolumesId == "channelVolumes"

None == <<>>
Some(x) == <<x>>

-----------------------------------------------------------------------------
(* Dump model: the values of Vec<PipeWireObject> *)

MetadataEntry(k, n) == [key |-> k, value |-> [name |-> n]]

MetadataObject(t, entries) == [variant |-> "Metadata", typ |-> t, metadata |-> entries]

ValueObject == [variant |-> "Value"]

PropInfoVolume(i, lo, hi) ==
    [variant |-> "Volume", id |-> i, typ |-> [default |-> 100, min |-> lo, max |-> hi]]

PropVolume(v, m, cv) ==
    [variant |-> "Volume", volume |-> v, mute |-> m, channel_volumes |-> cv]

NodeObject(i, t, name, pinfo, props) ==
    [variant |-> "Node", id |-> i, typ |-> t,
     info |-> [props |-> [node_name |-> name],
               params |-> [prop_info |-> pinfo, props |-> props]]]

\* a Props entry of a layout that the dump fills with the node's live state
LiveProp == [variant |-> "Live"]

-----------------------------------------------------------------------------
(* Iterator helpers *)

\* Iterator::find / find_map: the first element satisfying P, as an Option
FindFirst(s, P(_)) ==
    LET I == {i \in DOMAIN s : P(s[i])}
    IN  IF I = {} THEN None
        ELSE Some(s[CHOOSE i \in I : \A j \in I : i <= j])

RECURSIVE Flatten(_)
\* Iterator::flat_map over a sequence of sequences
Flatten(ss) == IF ss = <<>> THEN <<>> ELSE Head(ss) \o Flatten(Tail(ss))

-----------------------------------------------------------------------------
(* Sink resolver, lines 144-217 *)

\* faulty variant: the type guard of line 147 dropped
IsMetadataShape(o) == o.variant = "Metadata"

\* lines 146-149: the filter_map keeps the Metadata objects of the interface type
IsMetadataInterface(o) == o.variant = "Metadata" /\ o.typ = MetadataInterface

\* lines 145-150: the entries of those objects, in dump order
FlatMapMetadata(objs) ==
    LET mds == SelectSeq(objs, IsMetadataInterface)
    IN  Flatten([i \in DOMAIN mds |-> mds[i].metadata])

\* line 152
IsDefaultSinkEntry(md) == md.key = DefaultSinkKey

\* lines 144-157: name carried by the first "default.audio.sink" entry
FindDefaultAudioSink(objs) ==
    LET found == FindFirst(FlatMapMetadata(objs), IsDefaultSinkEntry)
    IN  IF found = None THEN None ELSE Some(found[1].value.name)

\* lines 164-166: the match arm guard of the node search
IsSinkNode(o, sink) ==
    /\ o.variant = "Node"
    /\ o.typ = NodeInterface
    /\ o.info.props.node_name = sink

\* faulty variant: the last matching node instead of the first
FindLastNode(objs, sink) ==
    LET J == {j \in DOMAIN objs : IsSinkNode(objs[j], sink)}
    IN  IF J = {} THEN None
        ELSE Some(objs[CHOOSE j \in J : \A j2 \in J : j2 <= j])

\* lines 161-171: first node object carrying the sink's name
FindNode(objs, sink) ==
    LET Matches(o) == IsSinkNode(o, sink)
    IN  FindFirst(objs, Matches)

IsChannelVolumesInfo(p) == p.variant = "Volume" /\ p.id = ChannelVolumesId

\* lines 178-186: the typ of the first PropInfo entry with id "channelVolumes"
FindVolumeProp(n) ==
    LET found == FindFirst(n.info.params.prop_info, IsChannelVolumesInfo)
    IN  IF found = None THEN None ELSE Some(found[1].typ)

\* line 193
Range(vp) == vp.max - vp.min

\* faulty variant: an empty range accepted
RangeIsNonNegative(range) == range >= 0

\* line 196: the condition of the ensure!
RangeIsPositive(range) == range > 0

IsVolumeProp(p) == p.variant = "Volume"

\* lines 203-211: the first Props entry of the Volume shape
FindStatus(n) == FindFirst(n.info.params.props, IsVolumeProp)

\* line 215: the condition of the ensure!
HasChannels(st) == st.channel_volumes /= <<>>

-----------------------------------------------------------------------------
(* Volume calculator and command encoder, lines 123-133 and 220-256 *)

\* #[derive(Default)] of PipeWireCommand, line 220
DefaultCommand == [mute |-> FALSE, volume |-> None, channel_volumes |-> None]

\* faulty variant: toggle handled like on
MuteCommandToggleOn(st, transition) ==
    IF transition = "off" THEN DefaultCommand
    ELSE [DefaultCommand EXCEPT !.mute = TRUE]

\* lines 222-226
MuteCommand(st, transition) ==
    IF transition = "on" THEN [DefaultCommand EXCEPT !.mute = TRUE]
    ELSE IF transition = "toggle" THEN [DefaultCommand EXCEPT !.mute = ~st.mute]
    ELSE DefaultCommand

\* is_decimal_percentage, lines 135-140: a number followed by "%"
IsDecimalPercentage(delta) == delta.suffix = "%"

\* faulty variant: the sign of the percentage lost in parsing
ParsePercentUnsigned(delta) == delta.number

\* line 231: drop the last character, parse the rest as a signed number
ParsePercent(delta) ==
    IF delta.sign = "-" THEN 0 - delta.number ELSE delta.number

\* line 232
Increment(percent, range) == (percent * range) \div 100

\* faulty variant: only the lower bound applied
ClampLowerOnly(x, lo, hi) == IF x < lo THEN lo ELSE x

\* f64::clamp, line 235
Clamp(x, lo, hi) == IF x < lo THEN lo ELSE IF x > hi THEN hi ELSE x

\* lines 233-237: the loop over the channels
NewVolumes(cv, increment, vp) ==
    [i \in DOMAIN cv |-> Clamp(cv[i] + increment, vp.min, vp.max)]

\* faulty variant: the current mute state carried into the change command
ChangeCommandKeepMute(st, vp, delta) ==
    [mute |-> st.mute,
     volume |-> None,
     channel_volumes |->
        Some(NewVolumes(st.channel_volumes,
                        Increment(ParsePercent(delta), Range(vp)), vp))]

\* lines 227-239
ChangeCommand(st, vp, delta) ==
    LET percent == ParsePercent(delta)
        increment == Increment(percent, Range(vp))
    IN  [DefaultCommand EXCEPT
            !.channel_volumes = Some(NewVolumes(st.channel_volumes, increment, vp))]

\* faulty variant: unset fields written out (as empty values) instead of skipped
SerializeUnset(c) ==
    [k \in {"mute", "volume", "channelVolumes"} |->
        IF k = "mute" THEN c.mute
        ELSE IF k = "volume" THEN (IF c.volume = None THEN 0 ELSE c.volume[1])
        ELSE (IF c.channel_volumes = None THEN <<>> ELSE c.channel_volumes[1])]

\* serde_json::to_string(&cmd), line 256, with the skip_serializing_if
\* attributes of lines 127 and 131: the JSON object as a map from its keys
Serialize(c) ==
    LET keys == {"mute"}
                \cup (IF c.volume = None THEN {} ELSE {"volume"})
                \cup (IF c.channel_volumes = None THEN {} ELSE {"channelVolumes"})
    IN  [k \in keys |->
            IF k = "mute" THEN c.mute
            ELSE IF k = "volume" THEN c.volume[1]
            ELSE c.channel_volumes[1]]

-----------------------------------------------------------------------------
(* Status reporter, lines 240-253 *)

RECURSIVE GCD(_, _)
GCD(a, b) == IF b = 0 THEN a ELSE GCD(b, a % b)

Abs(x) == IF x < 0 THEN 0 - x ELSE x

\* "{:.0}" of num/den (den > 0): nearest integer, a tie goes to the even one
FormatRounded(num, den) ==
    LET q == num \div den
        r == num % den
    IN  IF 2 * r < den THEN q
        ELSE IF 2 * r > den THEN q + 1
        ELSE IF q % 2 = 0 THEN q ELSE q + 1

\* "{}" of num/den (den > 0): the value itself, written in lowest terms
\* (den = 1 is the text of an integer)
FormatDisplay(num, den) ==
    LET g == GCD(Abs(num), den)
    IN  [num |-> num \div g, den |-> den \div g]

\* lines 241-251: the line printed by the status subcommand
StatusLine(st, range) ==
    IF st.mute
    THEN [alt |-> "mute", tooltip |-> "muted"]
    ELSE LET vol == st.channel_volumes[1]
             num == vol * 100
         IN  [percentage |-> FormatRounded(num, range),
              tooltip |-> FormatDisplay(num, range)]

-----------------------------------------------------------------------------
(* The audio server: what pw-dump reports and what pw-cli set-param does *)

\* pw-dump, lines 313-317: the layout with every live Props entry replaced
\* by the state the server holds for that node
RenderProps(props, dev) ==
    [i \in DOMAIN props |->
        IF props[i].variant = "Live"
        THEN PropVolume(dev.volume, dev.mute, dev.channel_volumes)
        ELSE props[i]]

PwDump(lay, devs) ==
    [i \in DOMAIN lay |->
        IF lay[i].variant = "Node"
        THEN [lay[i] EXCEPT !.info.params.props = RenderProps(@, devs[lay[i].id])]
        ELSE lay[i]]

\* pw-cli set-param <id> Props <json>, lines 257-258, exiting with 0: the
\* keys present in the JSON object replace the node's live properties
SetParam(devs, id, props) ==
    IF id \notin DOMAIN devs THEN devs
    ELSE [devs EXCEPT ![id] =
            [volume |-> IF "volume" \in DOMAIN props THEN props["volume"] ELSE @.volume,
             mute |-> IF "mute" \in DOMAIN props THEN props["mute"] ELSE @.mute,
             channel_volumes |-> IF "channelVolumes" \in DOMAIN props
                                 THEN props["channelVolumes"]
                                 ELSE @.channel_volumes]]

-----------------------------------------------------------------------------
(* Inputs *)

SinkA == "alsa_output.a"
SinkB == "alsa_output.b"
NodeIds == {1, 2}

ValueEntry == [variant |-> "Value"]

GoodInfo(lo, hi) == <<ValueEntry, PropInfoVolume(ChannelVolumesId, lo, hi)>>

DefaultMetadata(name) ==
    MetadataObject(MetadataInterface, <<MetadataEntry(DefaultSinkKey, name)>>)

SinkNode(id, name, lo, hi) ==
    NodeObject(id, NodeInterface, name, GoodInfo(lo, hi), <<ValueEntry, LiveProp>>)

\* the servers the whole program is run against: sinks with three ranges,
\* one with duplicates and unrelated objects, and one per resolution failure
RunLayouts ==
    { <<DefaultMetadata(SinkA), SinkNode(1, SinkA, 0, 100)>>,
      <<SinkNode(2, SinkA, 0, 200), ValueObject, DefaultMetadata(SinkA)>>,
      <<DefaultMetadata(SinkA), SinkNode(1, SinkA, 100, 400)>>,
      <<ValueObject,
        MetadataObject(MetadataInterface,
                       <<MetadataEntry("default.audio.source", SinkA),
                         MetadataEntry(DefaultSinkKey, SinkB),
                         MetadataEntry(DefaultSinkKey, SinkA)>>),
        SinkNode(1, SinkA, 0, 100),
        SinkNode(2, SinkB, 0, 100),
        SinkNode(1, SinkB, 0, 200)>>,
      <<SinkNode(1, SinkA, 0, 100)>>,
      <<DefaultMetadata(SinkB), SinkNode(1, SinkA, 0, 100)>>,
      <<DefaultMetadata(SinkA),
        NodeObject(1, NodeInterface, SinkA,
                   <<ValueEntry, PropInfoVolume("volume", 0, 100)>>,
                   <<LiveProp>>)>>,
      <<DefaultMetadata(SinkA), SinkNode(1, SinkA, 100, 100)>>,
      <<DefaultMetadata(SinkA), SinkNode(2, SinkA, 200, 100)>>,
      <<DefaultMetadata(SinkA),
        NodeObject(1, NodeInterface, SinkA, GoodInfo(0, 100), <<ValueEntry>>)>> }

\* the object shapes the resolver is enumerated over: an unrecognized object,
\* two Metadata objects naming different sinks, a metadata-shaped object of
\* another interface, two Node objects of the same name and a node-shaped
\* object of another interface
ResolveObjects ==
    { ValueObject,
      DefaultMetadata(SinkA),
      MetadataObject(MetadataInterface,
                     <<MetadataEntry("default.audio.source", SinkA),
                       MetadataEntry(DefaultSinkKey, SinkB)>>),
      MetadataObject("PipeWire:Interface:Profiler",
                     <<MetadataEntry(DefaultSinkKey, SinkA)>>),
      SinkNode(1, SinkA, 0, 100),
      SinkNode(2, SinkA, 100, 100),
      NodeObject(2, "PipeWire:Interface:Port", SinkB, GoodInfo(0, 200), <<LiveProp>>) }

SeqsUpTo(S, n) == UNION {[1..k -> S] : k \in 0..n}

ResolveLayouts == SeqsUpTo(ResolveObjects, MaxObjs)

InitVolumes == {0, 50, 125}

InitDevices ==
    [volume : {100}, mute : BOOLEAN, channel_volumes : SeqsUpTo(InitVolumes, MaxChannels)]

Delta(sign, number, suffix) == [sign |-> sign, number |-> number, suffix |-> suffix]

\* "+50%", "-50%", "150%" and, rejected by the validator, "+50"
Deltas == {Delta("+", 50, "%"), Delta("-", 50, "%"), Delta("", 150, "%"), Delta("+", 50, "")}

NoDelta == Delta("", 0, "")

CommandLines ==
    [subcommand : {"mute"}, TRANSITION : {"on", "off", "toggle"}, DELTA : {NoDelta}]
    \cup [subcommand : {"change"}, TRANSITION : {""}, DELTA : Deltas]
    \cup [subcommand : {"status"}, TRANSITION : {""}, DELTA : {NoDelta}]

-----------------------------------------------------------------------------
(* The run *)

Init ==
    /\ pc = "start"
    /\ matches = [subcommand |-> "status", TRANSITION |-> "", DELTA |-> NoDelta]
    /\ layout \in RunLayouts
    /\ \E d \in InitDevices : device = [i \in NodeIds |-> d]
    /\ obj = <<>>
    /\ default_audio_sink = None
    /\ node = None
    /\ volume_prop = None
    /\ status = None
    /\ cmd = None
    /\ invocations = <<>>
    /\ stdout = <<>>
    /\ result = "running"
    /\ prev_toggle = None

\* the run ends with an error: anyhow's Err unwrapped in main, line 319
Fail(error) ==
    /\ pc' = "exit"
    /\ result' = error

\* main, lines 267-319: a new process.  clap rejects a DELTA the validator
\* refuses before anything else happens; otherwise pw-dump is read
Main ==
    /\ pc \in {"start", "exit"}
    /\ \E m \in CommandLines :
        /\ matches' = m
        /\ IF m.subcommand = "change" /\ ~IsDecimalPercentage(m.DELTA)
           THEN /\ Fail("InvalidDeltaArgument")
                /\ obj' = <<>>
           ELSE /\ pc' = "default_audio_sink"
                /\ result' = "running"
                /\ obj' = PwDump(layout, device)
    /\ prev_toggle' =
        IF /\ pc = "exit"
           /\ result = "Ok"
           /\ matches.subcommand = "mute"
           /\ matches.TRANSITION = "toggle"
        THEN Some(status[1].mute)
        ELSE None
    /\ default_audio_sink' = None
    /\ node' = None
    /\ volume_prop' = None
    /\ status' = None
    /\ cmd' = None
    /\ invocations' = <<>>
    /\ stdout' = <<>>
    /\ UNCHANGED <<layout, device>>

\* lines 144-158
ResolveDefaultAudioSink ==
    /\ pc = "default_audio_sink"
    /\ default_audio_sink' = FindDefaultAudioSink(obj)
    /\ IF default_audio_sink' = None
       THEN Fail("NoDefaultSink")
       ELSE pc' = "node" /\ UNCHANGED result
    /\ UNCHANGED <<matches, layout, device, obj, node, volume_prop, status, cmd,
                   invocations, stdout, prev_toggle>>

\* lines 161-175
ResolveNode ==
    /\ pc = "node"
    /\ node' = FindNode(obj, default_audio_sink[1])
    /\ IF node' = None
       THEN Fail("SinkNodeNotFound")
       ELSE pc' = "volume_prop" /\ UNCHANGED result
    /\ UNCHANGED <<matches, layout, device, obj, default_audio_sink, volume_prop,
                   status, cmd, invocations, stdout, prev_toggle>>

\* lines 178-190
ResolveVolumeProp ==
    /\ pc = "volume_prop"
    /\ volume_prop' = FindVolumeProp(node[1])
    /\ IF volume_prop' = None
       THEN Fail("NoVolumeRange")
       ELSE pc' = "range" /\ UNCHANGED result
    /\ UNCHANGED <<matches, layout, device, obj, default_audio_sink, node,
                   status, cmd, invocations, stdout, prev_toggle>>

\* lines 193-200
CheckRange ==
    /\ pc = "range"
    /\ IF RangeIsPositive(Range(volume_prop[1]))
       THEN pc' = "status" /\ UNCHANGED result
       ELSE Fail("InvalidVolumeRange")
    /\ UNCHANGED <<matches, layout, device, obj, default_audio_sink, node,
                   volume_prop, status, cmd, invocations, stdout, prev_toggle>>

\* lines 203-212
ResolveStatus ==
    /\ pc = "status"
    /\ status' = FindStatus(node[1])
    /\ IF status' = None
       THEN Fail("NoVolumeState")
       ELSE pc' = "channels" /\ UNCHANGED result
    /\ UNCHANGED <<matches, layout, device, obj, default_audio_sink, node,
                   volume_prop, cmd, invocations, stdout, prev_toggle>>

\* lines 214-217
CheckChannels ==
    /\ pc = "channels"
    /\ IF HasChannels(status[1])
       THEN pc' = "command" /\ UNCHANGED result
       ELSE Fail("NoChannels")
    /\ UNCHANGED <<matches, layout, device, obj, default_audio_sink, node,
                   volume_prop, status, cmd, invocations, stdout, prev_toggle>>

\* lines 220-226: the "mute" arm
Mute ==
    /\ pc = "command"
    /\ matches.subcommand = "mute"
    /\ cmd' = Some(MuteCommand(status[1], matches.TRANSITION))
    /\ pc' = "set_param"
    /\ UNCHANGED <<matches, layout, device, obj, default_audio_sink, node,
                   volume_prop, status, invocations, stdout, result, prev_toggle>>

\* lines 220-221 and 227-239: the "change" arm
Change ==
    /\ pc = "command"
    /\ matches.subcommand = "change"
    /\ cmd' = Some(ChangeCommand(status[1], volume_prop[1], matches.DELTA))
    /\ pc' = "set_param"
    /\ UNCHANGED <<matches, layout, device, obj, default_audio_sink, node,
                   volume_prop, status, invocations, stdout, result, prev_toggle>>

\* faulty variant: the return of line 252 missing, status falls through to pw-cli
StatusFallsThrough ==
    /\ pc = "command"
    /\ matches.subcommand = "status"
    /\ cmd' = Some(DefaultCommand)
    /\ stdout' = Append(stdout, StatusLine(status[1], Range(volume_prop[1])))
    /\ pc' = "set_param"
    /\ UNCHANGED <<matches, layout, device, obj, default_audio_sink, node,
                   volume_prop, status, invocations, result, prev_toggle>>

\* lines 220-221 and 240-253: the "status" arm prints and returns Ok
Status ==
    /\ pc = "command"
    /\ matches.subcommand = "status"
    /\ cmd' = Some(DefaultCommand)
    /\ stdout' = Append(stdout, StatusLine(status[1], Range(volume_prop[1])))
    /\ pc' = "exit"
    /\ result' = "Ok"
    /\ UNCHANGED <<matches, layout, device, obj, default_audio_sink, node,
                   volume_prop, status, invocations, prev_toggle>>

\* what becomes of the spawned pw-cli, lines 257-263
Outcomes == {"exit 0", "exit 1", "signal", "spawn failed"}

OutcomeResult(outcome) ==
    IF outcome = "exit 0" THEN "Ok"
    ELSE IF outcome = "spawn failed" THEN "SpawnFailed"
    ELSE "ControlCommandFailed"

\* lines 256-264: serialize the command and run pw-cli once
SendCommand ==
    /\ pc = "set_param"
    /\ LET set_cmd == Serialize(cmd[1])
           id == node[1].id
       IN  /\ invocations' = Append(invocations, [id |-> id, props |-> set_cmd])
           /\ \E outcome \in Outcomes :
                /\ device' = IF outcome = "exit 0"
                             THEN SetParam(device, id, set_cmd)
                             ELSE device
                /\ result' = OutcomeResult(outcome)
    /\ pc' = "exit"
    /\ UNCHANGED <<matches, layout, obj, default_audio_sink, node, volume_prop,
                   status, cmd, stdout, prev_toggle>>

Next ==
    \/ Main
    \/ ResolveDefaultAudioSink
    \/ ResolveNode
    \/ ResolveVolumeProp
    \/ CheckRange
    \/ ResolveStatus
    \/ CheckChannels
    \/ Mute
    \/ Change
    \/ Status
    \/ SendCommand

Spec == Init /\ [][Next]_vars

-----------------------------------------------------------------------------
(* The resolver alone, as a function of the parsed dump *)

ResolveDevice == [volume |-> 100, mute |-> FALSE, channel_volumes |-> <<50, 125>>]

InitResolve ==
    /\ pc = "default_audio_sink"
    /\ matches = [subcommand |-> "status", TRANSITION |-> "", DELTA |-> NoDelta]
    /\ layout \in ResolveLayouts
    /\ device = [i \in NodeIds |-> ResolveDevice]
    /\ obj = PwDump(layout, device)
    /\ default_audio_sink = None
    /\ node = None
    /\ volume_prop = None
    /\ status = None
    /\ cmd = None
    /\ invocations = <<>>
    /\ stdout = <<>>
    /\ result = "running"
    /\ prev_toggle = None

NextResolve ==
    \/ ResolveDefaultAudioSink
    \/ ResolveNode
    \/ ResolveVolumeProp
    \/ CheckRange
    \/ ResolveStatus
    \/ CheckChannels

SpecResolve == InitResolve /\ [][NextResolve]_vars

-----------------------------------------------------------------------------
(* Properties *)

Min2(a, b) == IF a < b THEN a ELSE b
Max2(a, b) == IF a > b THEN a ELSE b

\* the percent a DELTA argument denotes
PercentOf(delta) == IF delta.sign = "-" THEN 0 - delta.number ELSE delta.number

\* a change run has built its command
ChangeBuilt == matches.subcommand = "change" /\ cmd /= None

\* a mute run has built its command
MuteBuilt == matches.subcommand = "mute" /\ cmd /= None

\* the run sent its command and pw-cli exited with 0
Sent == pc = "exit" /\ result = "Ok" /\ invocations /= <<>>

\* C1: for a resolved sink (max - min > 0, channels non-empty) and every
\* percent p, the channelVolumes of the ChangeBy payload has the length and
\* order of the current list, each element is
\* clamp(old + p * (max - min) / 100, min, max), and so lies in [min, max].
C1_ChangeByPayload ==
    ChangeBuilt =>
        LET old == status[1].channel_volumes
            lo == volume_prop[1].min
            hi == volume_prop[1].max
            p == PercentOf(matches.DELTA)
            new == cmd[1].channel_volumes[1]
        IN  /\ hi - lo > 0
            /\ old /= <<>>
            /\ (p * (hi - lo)) % 100 = 0
            /\ DOMAIN new = DOMAIN old
            /\ \A i \in DOMAIN old :
                /\ new[i] = Max2(lo, Min2(hi, old[i] + (p * (hi - lo)) \div 100))
                /\ lo <= new[i]
                /\ new[i] <= hi
            /\ \A k \in DOMAIN invocations :
                invocations[k].props["channelVolumes"] = new

\* a two-channel change was sent: one channel moved freely, the other was clamped
C1_Witness ==
    /\ Sent
    /\ ChangeBuilt
    /\ LET old == status[1].channel_volumes
           new == invocations[1].props["channelVolumes"]
           inc == (PercentOf(matches.DELTA) * Range(volume_prop[1])) \div 100
       IN  /\ Len(old) = 2
           /\ new[1] = old[1] + inc
           /\ new[2] /= old[2] + inc
           /\ new[2] = volume_prop[1].max
           /\ new[1] /= new[2]

\* C2 as stated: ChangeBy(p) with p > 0 never lowers a channel, with p < 0
\* never raises one.
C2_MonotonicAnyVolume ==
    ChangeBuilt =>
        LET old == status[1].channel_volumes
            p == PercentOf(matches.DELTA)
            new == cmd[1].channel_volumes[1]
        IN  \A i \in DOMAIN old :
                /\ p > 0 => new[i] >= old[i]
                /\ p < 0 => new[i] <= old[i]

\* C2, amended: ChangeBy(p) is monotonic for every channel whose current
\* volume lies in [min, max]; a channel above max is lowered to max, and one
\* below min raised to min, whatever the sign of p.
C2_MonotonicInRange ==
    ChangeBuilt =>
        LET old == status[1].channel_volumes
            lo == volume_prop[1].min
            hi == volume_prop[1].max
            p == PercentOf(matches.DELTA)
            new == cmd[1].channel_volumes[1]
        IN  \A i \in DOMAIN old :
                /\ (lo <= old[i] /\ old[i] <= hi /\ p > 0) => new[i] >= old[i]
                /\ (lo <= old[i] /\ old[i] <= hi /\ p < 0) => new[i] <= old[i]
                /\ p > 0 => new[i] >= Min2(old[i], hi)
                /\ p < 0 => new[i] <= Max2(old[i], lo)

\* a negative change lowered an in-range channel without reaching min
C2_Witness ==
    /\ ChangeBuilt
    /\ PercentOf(matches.DELTA) < 0
    /\ \E i \in DOMAIN status[1].channel_volumes :
        LET old == status[1].channel_volumes[i]
            new == cmd[1].channel_volumes[1][i]
        IN  /\ volume_prop[1].min <= old
            /\ old <= volume_prop[1].max
            /\ new < old
            /\ new > volume_prop[1].min

\* C3: the ChangeBy payload carries mute = false whatever the current mute
\* state and never a volume field; a ChangeBy run that succeeds on a muted
\* device leaves it unmuted.
C3_ChangeUnmutes ==
    ChangeBuilt =>
        /\ cmd[1].mute = FALSE
        /\ cmd[1].volume = None
        /\ \A k \in DOMAIN invocations :
            /\ invocations[k].props["mute"] = FALSE
            /\ "volume" \notin DOMAIN invocations[k].props
        /\ Sent => device[node[1].id].mute = FALSE

\* a change was sent to a device that was muted
C3_Witness ==
    /\ Sent
    /\ ChangeBuilt
    /\ status[1].mute = TRUE
    /\ device[node[1].id].mute = FALSE

\* C4: the toggle payload's mute is the negation of the mute read from the
\* dump; two consecutive successful toggle runs restore the original mute.
C4_ToggleSelfInverse ==
    (MuteBuilt /\ matches.TRANSITION = "toggle") =>
        /\ cmd[1].mute = ~status[1].mute
        /\ \A k \in DOMAIN invocations : invocations[k].props["mute"] = ~status[1].mute
        /\ (Sent /\ prev_toggle /= None) =>
            /\ status[1].mute = ~prev_toggle[1]
            /\ device[node[1].id].mute = prev_toggle[1]

\* the second of two successful toggle runs has ended
C4_Witness ==
    /\ Sent
    /\ MuteBuilt
    /\ matches.TRANSITION = "toggle"
    /\ prev_toggle = Some(TRUE)
    /\ device[node[1].id].mute = TRUE

\* C5: the payload of MuteOn, MuteOff and MuteToggle has the mute key (true
\* for on, false for off) and neither a volume nor a channelVolumes key, so a
\* mute run leaves the device's channel volumes unchanged.
C5_MutePayloadFrame ==
    MuteBuilt =>
        /\ DOMAIN Serialize(cmd[1]) = {"mute"}
        /\ matches.TRANSITION = "on" => Serialize(cmd[1])["mute"] = TRUE
        /\ matches.TRANSITION = "off" => Serialize(cmd[1])["mute"] = FALSE
        /\ \A k \in DOMAIN invocations :
            /\ invocations[k].id = node[1].id
            /\ invocations[k].props = Serialize(cmd[1])
        /\ pc = "exit" =>
            device[node[1].id].channel_volumes = status[1].channel_volumes

\* a mute-on run changed the mute state of a two-channel device
C5_Witness ==
    /\ Sent
    /\ MuteBuilt
    /\ matches.TRANSITION = "on"
    /\ status[1].mute = FALSE
    /\ device[node[1].id].mute = TRUE
    /\ Len(device[node[1].id].channel_volumes) = 2

\* C6: for a resolved, unmuted sink status prints percentage P and tooltip
\* "P%", P being channelVolumes[0] * 100 / (max - min) rounded to an integer
\* (min not subtracted) and the tooltip showing that same integer; for a
\* muted sink it prints the mute indicator and no percentage.
C6_StatusOutput ==
    (pc = "exit" /\ matches.subcommand = "status" /\ result = "Ok") =>
        /\ Len(stdout) = 1
        /\ IF status[1].mute
           THEN stdout[1] = [alt |-> "mute", tooltip |-> "muted"]
           ELSE LET num == status[1].channel_volumes[1] * 100
                    den == volume_prop[1].max - volume_prop[1].min
                    P == stdout[1].percentage
                IN  /\ DOMAIN stdout[1] = {"percentage", "tooltip"}
                    /\ 2 * Abs(P * den - num) <= den
                    /\ stdout[1].tooltip = [num |-> P, den |-> 1]

\* the six resolution checks of lines 144-217, stated on the dump
MetadataInterfaceAt(objs) ==
    {i \in DOMAIN objs : objs[i].variant = "Metadata" /\ objs[i].typ = MetadataInterface}

SinkEntries(objs) ==
    UNION {{<<i, k>> : k \in {k \in DOMAIN objs[i].metadata :
                                objs[i].metadata[k].key = DefaultSinkKey}}
           : i \in MetadataInterfaceAt(objs)}

Earlier(a, b) == a[1] < b[1] \/ (a[1] = b[1] /\ a[2] <= b[2])

FirstSinkEntry(objs) ==
    CHOOSE a \in SinkEntries(objs) : \A b \in SinkEntries(objs) : Earlier(a, b)

ExpectedSink(objs) ==
    LET a == FirstSinkEntry(objs) IN objs[a[1]].metadata[a[2]].value.name

NodesNamed(objs, name) ==
    {j \in DOMAIN objs :
        /\ objs[j].variant = "Node"
        /\ objs[j].typ = NodeInterface
        /\ objs[j].info.props.node_name = name}

ExpectedNodeAt(objs) ==
    LET J == NodesNamed(objs, ExpectedSink(objs))
    IN  CHOOSE j \in J : \A j2 \in J : j <= j2

SinkFound(objs) ==
    /\ SinkEntries(objs) /= {}
    /\ NodesNamed(objs, ExpectedSink(objs)) /= {}

ChecksPass(objs) ==
    /\ SinkFound(objs)
    /\ LET params == objs[ExpectedNodeAt(objs)].info.params
           R == {k \in DOMAIN params.prop_info :
                    /\ params.prop_info[k].variant = "Volume"
                    /\ params.prop_info[k].id = ChannelVolumesId}
           V == {k \in DOMAIN params.props : params.props[k].variant = "Volume"}
       IN  /\ R /= {}
           /\ \A k \in R : (\A k2 \in R : k <= k2) =>
                params.prop_info[k].typ.max - params.prop_info[k].typ.min > 0
           /\ V /= {}
           /\ \A k \in V : (\A k2 \in V : k <= k2) =>
                params.props[k].channel_volumes /= <<>>

ResolutionErrors ==
    {"NoDefaultSink", "SinkNodeNotFound", "NoVolumeRange", "InvalidVolumeRange",
     "NoVolumeState", "NoChannels"}

\* C7: a run invokes the control command at most once: exactly once, with
\* the resolved node's id, in a mute or change run whose six checks pass;
\* never in a status run; never in a run that fails a check, which ends
\* before any command or status output.
C7_AtMostOneCommand ==
    /\ Len(invocations) <= 1
    /\ pc /= "exit" => invocations = <<>> /\ stdout = <<>>
    /\ (pc = "exit" /\ result /= "InvalidDeltaArgument") =>
        IF ~ChecksPass(obj)
        THEN /\ result \in ResolutionErrors
             /\ invocations = <<>>
             /\ stdout = <<>>
             /\ cmd = None
        ELSE IF matches.subcommand = "status"
        THEN invocations = <<>> /\ Len(stdout) = 1
        ELSE /\ Len(invocations) = 1
             /\ invocations[1].id = obj[ExpectedNodeAt(obj)].id
             /\ stdout = <<>>
    /\ (pc = "exit" /\ result = "InvalidDeltaArgument") =>
        invocations = <<>> /\ stdout = <<>>

\* a change run against the second node id sent its one command
C7_Witness ==
    /\ pc = "exit"
    /\ matches.subcommand = "change"
    /\ ChecksPass(obj)
    /\ Len(invocations) = 1
    /\ invocations[1].id = 2
    /\ obj[1].variant = "Node"

\* C8: a dump in which no object of the Metadata interface type carries a
\* "default.audio.sink" entry fails with NoDefaultSink, whatever else it
\* holds; a metadata-shaped object of another type does not count.
C8_NoDefaultSink ==
    (pc /= "default_audio_sink" /\ SinkEntries(obj) = {}) =>
        /\ result = "NoDefaultSink"
        /\ pc = "exit"
        /\ default_audio_sink = None
        /\ node = None

\* the failing dump holds the key under another type, and a node of that name
C8_Witness ==
    /\ result = "NoDefaultSink"
    /\ \E i \in DOMAIN obj :
        /\ obj[i].variant = "Metadata"
        /\ obj[i].typ /= MetadataInterface
        /\ obj[i].metadata[1].key = DefaultSinkKey
        /\ NodesNamed(obj, obj[i].metadata[1].value.name) /= {}

\* the run is past the range check of line 195
PastRangeCheck ==
    \/ pc \in {"status", "channels", "command", "set_param"}
    \/ pc = "exit" /\ volume_prop /= None

\* C9: a matched sink node whose range max - min is not strictly positive
\* fails with InvalidVolumeRange before the VolumeState is inspected; no
\* mute, change or status computation runs with a non-positive range.
C9_InvalidVolumeRange ==
    /\ (PastRangeCheck /\ volume_prop[1].max - volume_prop[1].min <= 0) =>
        /\ pc = "exit"
        /\ result = "InvalidVolumeRange"
        /\ status = None
        /\ cmd = None
        /\ invocations = <<>>
        /\ stdout = <<>>
    /\ (status /= None \/ cmd /= None \/ stdout /= <<>> \/ invocations /= <<>>) =>
        volume_prop[1].min < volume_prop[1].max

\* a sink with min = max failed the range check
C9_Witness ==
    /\ pc = "exit"
    /\ result = "InvalidVolumeRange"
    /\ volume_prop /= None
    /\ volume_prop[1].min = volume_prop[1].max
    /\ FindStatus(node[1]) /= None

\* lines 144-175 in one piece: the id of the node the resolver settles on
ResolveNodeId(objs) ==
    LET sink == FindDefaultAudioSink(objs)
    IN  IF sink = None THEN None
        ELSE LET n == FindNode(objs, sink[1])
             IN  IF n = None THEN None ELSE Some(n[1].id)

\* C10: resolution is first-match-wins over dump order: the name comes from
\* the first "default.audio.sink" entry among Metadata-interface objects, the
\* node is the first Node-interface object of that name; later duplicates and
\* unrelated objects anywhere do not change the node id returned.
C10_FirstMatchWins ==
    /\ default_audio_sink /= None =>
        /\ SinkEntries(obj) /= {}
        /\ default_audio_sink[1] = ExpectedSink(obj)
    /\ node /= None =>
        /\ SinkFound(obj)
        /\ node[1] = obj[ExpectedNodeAt(obj)]
        /\ ResolveNodeId(<<obj[FirstSinkEntry(obj)[1]], obj[ExpectedNodeAt(obj)]>>)
            = Some(node[1].id)
        /\ \A i \in DOMAIN obj :
            (i /= FirstSinkEntry(obj)[1] /\ i /= ExpectedNodeAt(obj)) =>
                ResolveNodeId(SubSeq(obj, 1, i - 1) \o <<ValueObject>>
                              \o SubSeq(obj, i + 1, Len(obj)))
                    = Some(node[1].id)
    /\ (pc = "exit" /\ result = "SinkNodeNotFound") =>
        /\ SinkEntries(obj) /= {}
        /\ NodesNamed(obj, ExpectedSink(obj)) = {}

\* the dump opens with an unrecognized object, names two different default
\* sinks and holds two nodes of the chosen name; the first of each won
C10_Witness ==
    /\ node /= None
    /\ obj[1].variant = "Value"
    /\ \E a, b \in SinkEntries(obj) :
        /\ a[1] < b[1]
        /\ obj[a[1]].metadata[a[2]].value.name /= obj[b[1]].metadata[b[2]].value.name
    /\ \E j, j2 \in NodesNamed(obj, default_audio_sink[1]) :
        /\ j < j2
        /\ obj[j].id /= obj[j2].id
        /\ node[1].id = obj[j].id

====
